---- MODULE Spec2Model ----
(***************************************************************************)
(* Model of the rule-based extraction engine of MeetingTaskAssigner        *)
(* (src/main.py): sentence segmentation, task detection, description       *)
(* extraction, assignment, deadline resolution, priority classification,   *)
(* dependency linking and result assembly.  Strings are TLA+ strings; the  *)
(* substring, whole-word and pattern searches are computed character by    *)
(* character as Python's str / re operations compute them.                 *)
(***************************************************************************)
EXTENDS Integers, Sequences, FiniteSets, TLC

(***************************************************************************)
(* Python's None and the exceptions a run can raise.                       *)
(***************************************************************************)
None == "<None>"
IndexError == "IndexError"
KeyError == "KeyError"

(***************************************************************************)
(* Character classes and generic string helpers.                           *)
(***************************************************************************)
CharAt(s, i) == SubSeq(s, i, i)

UpperSet ==
    { "A", "B", "C", "D", "E", "F", "G", "H", "I", "J", "K", "L", "M",
      "N", "O", "P", "Q", "R", "S", "T", "U", "V", "W", "X", "Y", "Z" }
LowerSet ==
    { "a", "b", "c", "d", "e", "f", "g", "h", "i", "j", "k", "l", "m",
      "n", "o", "p", "q", "r", "s", "t", "u", "v", "w", "x", "y", "z" }
DigitSet == { "0", "1", "2", "3", "4", "5", "6", "7", "8", "9" }

\* \w of Python's re for the ASCII range
WordChars ==
    { "A", "B", "C", "D", "E", "F", "G", "H", "I", "J", "K", "L", "M",
      "N", "O", "P", "Q", "R", "S", "T", "U", "V", "W", "X", "Y", "Z",
      "a", "b", "c", "d", "e", "f", "g", "h", "i", "j", "k", "l", "m",
      "n", "o", "p", "q", "r", "s", "t", "u", "v", "w", "x", "y", "z",
      "0", "1", "2", "3", "4", "5", "6", "7", "8", "9", "_" }

\* \s of Python's re / the characters str.strip() and str.split() remove
SpaceChars == {" ", "\t", "\n", "\r", "\f"}

\* the class [.!?] of the sentence splitter
TerminalChars == {".", "!", "?"}

LowerMap ==
    [ A |-> "a", B |-> "b", C |-> "c", D |-> "d", E |-> "e", F |-> "f", G |-> "g", H |-> "h", I |-> "i",
      J |-> "j", K |-> "k", L |-> "l", M |-> "m", N |-> "n", O |-> "o", P |-> "p", Q |-> "q", R |-> "r",
      S |-> "s", T |-> "t", U |-> "u", V |-> "v", W |-> "w", X |-> "x", Y |-> "y", Z |-> "z" ]

LowerChar(c) == IF c \in UpperSet THEN LowerMap[c] ELSE c

RECURSIVE LowerFrom(_, _)
LowerFrom(s, i) == IF i > Len(s) THEN "" ELSE LowerChar(CharAt(s, i)) \o LowerFrom(s, i + 1)

\* str.lower()
Lower(s) == LowerFrom(s, 1)

\* sub occurs in s at position i
OccursAt(s, sub, i) == i >= 1 /\ i + Len(sub) - 1 <= Len(s) /\ SubSeq(s, i, i + Len(sub) - 1) = sub

\* Python's "sub in s"
Contains(s, sub) == \E i \in 1..(Len(s) - Len(sub) + 1) : SubSeq(s, i, i + Len(sub) - 1) = sub

IsWordAt(s, i) == i >= 1 /\ i <= Len(s) /\ CharAt(s, i) \in WordChars

\* \b between the characters i and i+1 of s (i = 0 : start, i = Len(s) : end)
Boundary(s, i) == IsWordAt(s, i) # IsWordAt(s, i + 1)

\* re.search(r'\b' + re.escape(w) + r'\b', s)
WordSearch(s, w) ==
    \E i \in 1..(Len(s) - Len(w) + 1) :
        OccursAt(s, w, i) /\ Boundary(s, i - 1) /\ Boundary(s, i + Len(w) - 1)

RECURSIVE LStripFrom(_, _)
LStripFrom(s, i) ==
    IF i > Len(s) THEN Len(s) + 1
    ELSE IF CharAt(s, i) \in SpaceChars THEN LStripFrom(s, i + 1) ELSE i

RECURSIVE RStripFrom(_, _)
RStripFrom(s, j) ==
    IF j < 1 THEN 0
    ELSE IF CharAt(s, j) \in SpaceChars THEN RStripFrom(s, j - 1) ELSE j

\* str.strip()
Strip(s) == SubSeq(s, LStripFrom(s, 1), RStripFrom(s, Len(s)))

\* the pieces of s between the characters of seps, a run of separators
\* giving empty pieces; start is the first character of the current piece
RECURSIVE SplitFrom(_, _, _, _)
SplitFrom(s, seps, start, i) ==
    IF i > Len(s) THEN <<SubSeq(s, start, Len(s))>>
    ELSE IF CharAt(s, i) \in seps
         THEN <<SubSeq(s, start, i - 1)>> \o SplitFrom(s, seps, i + 1, i + 1)
         ELSE SplitFrom(s, seps, start, i + 1)

SplitOn(s, seps) == SplitFrom(s, seps, 1, 1)

\* str.split() : whitespace-separated words, no empty words
Words(s) == SelectSeq(SplitOn(s, SpaceChars), LAMBDA w : w # "")

RECURSIVE JoinFrom(_, _, _)
JoinFrom(parts, sep, i) ==
    IF i > Len(parts) THEN ""
    ELSE IF i = Len(parts) THEN parts[i]
    ELSE parts[i] \o sep \o JoinFrom(parts, sep, i + 1)

\* sep.join(parts)
Join(parts, sep) == JoinFrom(parts, sep, 1)

Min(a, b) == IF a < b THEN a ELSE b
Max(a, b) == IF a > b THEN a ELSE b

(***************************************************************************)
(* The fixed tables of MeetingTaskAssigner.__init__.                       *)
(***************************************************************************)
task_keywords ==
    << "need to", "needs to", "should", "must", "have to", "got to",
       "can you", "could you", "would you", "please",
       "fix", "create", "build", "design", "develop", "write", "update",
       "implement", "review", "test", "deploy", "optimize", "refactor",
       "debug", "investigate", "research", "document", "prepare" >>

\* the tiers by decreasing rank: critical, high, medium, low
priority_keywords_by_rank ==
    << [priority |-> "critical",
        keywords |-> <<"critical", "urgent", "asap", "emergency", "blocking", "blocker">>],
       [priority |-> "high",
        keywords |-> <<"high priority", "important", "soon", "quickly", "high">>],
       [priority |-> "medium",
        keywords |-> <<"medium", "normal", "regular">>],
       [priority |-> "low",
        keywords |-> <<"low priority", "whenever", "eventually", "nice to have", "low">>] >>

\* the dict keeps its declaration order: critical, high, low, medium
priority_keywords ==
    << [priority |-> "critical",
        keywords |-> <<"critical", "urgent", "asap", "emergency", "blocking", "blocker">>],
       [priority |-> "high",
        keywords |-> <<"high priority", "important", "soon", "quickly", "high">>],
       [priority |-> "low",
        keywords |-> <<"low priority", "whenever", "eventually", "nice to have", "low">>],
       [priority |-> "medium",
        keywords |-> <<"medium", "normal", "regular">>] >>

\* A regular expression of the table is kept by the shape re.search decides:
\*   "alts" : the sentence contains one of the literal expansions of the
\*            pattern (an optional trailing group does not change whether
\*            the search succeeds);
\*   "gap"  : (a1|a2|..).*?(b1|b2|..) ;
\*   "days" : in (\d+) days? , whose label is the lambda;
\* label is the fixed text, "callable" for the lambda, None for the skip entry.
Alts(a, l) == [kind |-> "alts", first |-> a, second |-> {}, label |-> l]
Gap(a, b, l) == [kind |-> "gap", first |-> a, second |-> b, label |-> l]
StartWords == {"start", "begin", "starting"}

deadline_patterns ==
    << Alts({"by tomorrow", "by tmrw"}, "Tomorrow"),
       Alts({"tomorrow", "tmrw"}, "Tomorrow"),
       Alts({"by today", "by tonight"}, "Today"),
       Alts({"end of this week", "end of week"}, "End of this week"),
       Alts({"by the weekend", "by weekend"}, "Weekend"),
       Alts({"finish by the weekend", "finish by weekend"}, "Weekend"),
       Alts({"by friday", "by fri"}, "Friday"),
       Alts({"friday", "fri"}, "Friday"),
       Alts({"by monday", "by mon"}, "Monday"),
       Alts({"by tuesday", "by tue"}, "Tuesday"),
       Alts({"by wednesday", "by wed"}, "Wednesday"),
       Alts({"by thursday", "by thu"}, "Thursday"),
       Alts({"by saturday", "by sat"}, "Saturday"),
       Alts({"by sunday", "by sun"}, "Sunday"),
       Alts({"on monday", "on mon"}, "Monday"),
       Alts({"on tuesday", "on tue"}, "Tuesday"),
       Alts({"on wednesday", "on wed"}, "Wednesday"),
       Alts({"on thursday", "on thu"}, "Thursday"),
       Alts({"on friday", "on fri"}, "Friday"),
       Alts({"on saturday", "on sat"}, "Saturday"),
       Alts({"on sunday", "on sun"}, "Sunday"),
       Gap(StartWords, {"monday", "mon"}, "Monday"),
       Gap(StartWords, {"tuesday", "tue"}, "Tuesday"),
       Gap(StartWords, {"wednesday", "wed"}, "Wednesday"),
       Gap(StartWords, {"thursday", "thu"}, "Thursday"),
       Gap(StartWords, {"friday", "fri"}, "Friday"),
       Alts({"next week", "next monday", "next tuesday", "next wednesday",
             "next thursday", "next friday", "next weekend"}, "Next week"),
       [kind |-> "days", first |-> {}, second |-> {}, label |-> "callable"],
       Alts({"for figma", "for the", "for new", "for notification"}, None) >>

days ==
    << <<"monday", "Monday">>, <<"mon", "Monday">>,
       <<"tuesday", "Tuesday">>, <<"tue", "Tuesday">>,
       <<"wednesday", "Wednesday">>, <<"wed", "Wednesday">>,
       <<"thursday", "Thursday">>, <<"thu", "Thursday">>,
       <<"friday", "Friday">>, <<"fri", "Friday">>,
       <<"saturday", "Saturday">>, <<"sat", "Saturday">>,
       <<"sunday", "Sunday">>, <<"sun", "Sunday">> >>

urgency_words == <<"asap", "urgent", "immediately", "now">>

role_task_mapping ==
    << [role_type |-> "frontend",
        keywords |-> <<"ui", "interface", "button", "screen", "page", "css", "react", "design">>],
       [role_type |-> "backend",
        keywords |-> <<"database", "api", "server", "endpoint", "performance", "optimization">>],
       [role_type |-> "designer",
        keywords |-> <<"design", "mockup", "wireframe", "prototype", "ux", "ui">>],
       [role_type |-> "qa",
        keywords |-> <<"test", "testing", "quality", "bug", "validation", "automation">>],
       [role_type |-> "devops",
        keywords |-> <<"deploy", "deployment", "infrastructure", "ci/cd", "docker">>] >>

dependency_keywords == <<"depends on", "after", "once", "when", "first">>

description_prefixes == <<"need to", "should", "must", "have to", "can you", "could you", "please">>

\* indices of the entries of seq that satisfy Test, and the first of a set of
\* indices
Hits(seq, Test(_)) == {k \in 1..Len(seq) : Test(seq[k])}
First(hits) == CHOOSE k \in hits : \A h \in hits : k <= h

(***************************************************************************)
(* Segmenter and task detector.                                            *)
(***************************************************************************)
\* re.split(r'[.!?]+', text), then the stripped non-empty pieces (a run of
\* terminal characters yields empty pieces here, which the filter drops)
split_into_sentences(text) ==
    LET pieces == SplitOn(text, TerminalChars)
        kept == SelectSeq(pieces, LAMBDA s : Strip(s) # "")
    IN  [k \in 1..Len(kept) |-> Strip(kept[k])]

\* sentence_index is 0-based as in the code
RECURSIVE identify_from(_, _)
identify_from(sents, idx) ==
    IF idx >= Len(sents) THEN << >>
    ELSE LET sentence == sents[idx + 1]
             lower == Lower(sentence)
             InSentence(kw) == Contains(lower, kw)
             hits == Hits(task_keywords, InSentence)
         IN  IF hits # {}
             THEN << [sentence |-> sentence,
                      sentence_index |-> idx,
                      keyword |-> task_keywords[First(hits)]] >>
                  \o identify_from(sents, idx + 1)
             ELSE identify_from(sents, idx + 1)

identify_tasks(sents) == identify_from(sents, 0)

(***************************************************************************)
(* Description extractor.                                                  *)
(***************************************************************************)
\* (need to|should|must|have to|can you|could you|please)\s+(.+) matches at
\* position i: a prefix, at least one whitespace, then at least one
\* character that is not a newline
PrefixMatchAt(s, i) ==
    \E k \in 1..Len(description_prefixes) :
        LET p == description_prefixes[k]
            after == i + Len(p)
            rest == LStripFrom(s, after)
        IN  OccursAt(s, p, i) /\ rest > after /\ rest <= Len(s)

\* end of the line that starts at j ('.' does not match a newline)
RECURSIVE LineEnd(_, _)
LineEnd(s, j) ==
    IF j >= Len(s) THEN Len(s)
    ELSE IF CharAt(s, j + 1) = "\n" THEN j ELSE LineEnd(s, j + 1)

extract_task_description(sentence0) ==
    LET sentence == Strip(sentence0)
        \* re.IGNORECASE : the search is made on the lower-cased sentence
        lower == Lower(sentence)
        starts == {i \in 1..Len(sentence) : PrefixMatchAt(lower, i)}
    IN  IF starts # {}
        THEN LET i == First(starts)
                 k == CHOOSE q \in 1..Len(description_prefixes) :
                          OccursAt(lower, description_prefixes[q], i)
                 j == LStripFrom(sentence, i + Len(description_prefixes[k]))
             IN  Strip(SubSeq(sentence, j, LineEnd(sentence, j)))
        ELSE sentence

\* _generate_title: the first six words, cut to 47 characters and "..."
\* when longer than 50
generate_title(description) ==
    LET words == Words(description)
        title == Join(SubSeq(words, 1, Min(6, Len(words))), " ")
    IN  IF Len(title) > 50 THEN SubSeq(title, 1, 47) \o "..." ELSE title

(***************************************************************************)
(* Assigner.  A roster entry is a function from the keys it carries to     *)
(* strings; member['k'] raises KeyError when the key is missing.  The      *)
(* outcome of a resolution is a record: exc is the exception raised (or    *)
(* None), found tells a dict was returned rather than None.                *)
(***************************************************************************)
HasKey(member, key) == key \in DOMAIN member

NoAssignee == [exc |-> None, found |-> FALSE, name |-> None, reasoning |-> None]
Assignee(n, r) == [exc |-> None, found |-> TRUE, name |-> n, reasoning |-> r]
AssignRaise(e) == [exc |-> e, found |-> FALSE, name |-> None, reasoning |-> None]

RECURSIVE find_explicit_from(_, _, _)
find_explicit_from(sentence_lower, members, k) ==
    IF k > Len(members) THEN NoAssignee
    ELSE IF ~HasKey(members[k], "name") THEN AssignRaise(KeyError)
    ELSE IF WordSearch(sentence_lower, Lower(members[k]["name"]))
         THEN Assignee(members[k]["name"], "Explicitly mentioned in discussion")
         ELSE find_explicit_from(sentence_lower, members, k + 1)

find_explicit_assignment(sentence, members) ==
    find_explicit_from(Lower(sentence), members, 1)

\* the skill tokens of a member found in the description, in skills order
matched_skills(member, description_lower) ==
    LET skills == SplitOn(Lower(member["skills"]), {","})
        stripped == [k \in 1..Len(skills) |-> Strip(skills[k])]
    IN  SelectSeq(stripped, LAMBDA skill : skill # "" /\ Contains(description_lower, skill))

\* scores are kept in half points: 2 -> 4, 1 -> 2, 1.5 -> 3
SkillPoints == 4
RolePoints == 2
MappingPoints == 3

RECURSIVE SumSeq(_, _)
SumSeq(f, k) == IF k > Len(f) THEN 0 ELSE f[k] + SumSeq(f, k + 1)

score(member, description_lower) ==
    LET role_lower == Lower(member["role"])
        role_keywords == Words(role_lower)
        roleHits == [k \in 1..Len(role_keywords) |->
                        IF Contains(description_lower, role_keywords[k]) THEN RolePoints ELSE 0]
        mapHits == [k \in 1..Len(role_task_mapping) |->
                        IF Contains(role_lower, role_task_mapping[k].role_type)
                        THEN MappingPoints *
                             Cardinality(Hits(role_task_mapping[k].keywords,
                                              LAMBDA kw : Contains(description_lower, kw)))
                        ELSE 0]
    IN  SkillPoints * Len(matched_skills(member, description_lower))
        + SumSeq(roleHits, 1) + SumSeq(mapHits, 1)

WellFormedForSkills(member) == HasKey(member, "skills") /\ HasKey(member, "role")

\* the last entry that carries the maximum
FirstMax_last(scores) ==
    CHOOSE k \in 1..Len(scores) :
        /\ \A h \in 1..Len(scores) : scores[h].score <= scores[k].score
        /\ \A h \in (k + 1)..Len(scores) : scores[h].score < scores[k].score

\* max(scores, key=...) : the first entry that carries the maximum
FirstMax(scores) ==
    CHOOSE k \in 1..Len(scores) :
        /\ \A h \in 1..Len(scores) : scores[h].score <= scores[k].score
        /\ \A h \in 1..(k - 1) : scores[h].score < scores[k].score

assign_based_on_skills(description, members) ==
    LET description_lower == Lower(description)
    IN  IF \E k \in 1..Len(members) : ~WellFormedForSkills(members[k])
        THEN AssignRaise(KeyError)
        ELSE LET all == [k \in 1..Len(members) |->
                            [member |-> members[k],
                             score |-> score(members[k], description_lower),
                             matched_skills |-> matched_skills(members[k], description_lower)]]
                 scores == SelectSeq(all, LAMBDA e : e.score > 0)
             IN  IF scores # << >>
                 THEN LET best_match == scores[FirstMax(scores)]
                          \* member is the loop variable left by the for loop
                          member == members[Len(members)]
                      IN  IF ~HasKey(best_match.member, "name") THEN AssignRaise(KeyError)
                          ELSE
                          Assignee(best_match.member["name"],
                                   "Best match based on skills: "
                                   \o (IF best_match.matched_skills # << >>
                                       THEN Join(best_match.matched_skills, ", ")
                                       ELSE member["role"]))
                 ELSE NoAssignee

(***************************************************************************)
(* Deadline resolver.  The outcome is a record: exc the exception raised   *)
(* (or None), value the label (or None).                                   *)
(***************************************************************************)
Deadline(v) == [exc |-> None, value |-> v]
DeadlineRaise(e) == [exc |-> e, value |-> None]

AllDigits(s, from, to) == \A k \in from..to : CharAt(s, k) \in DigitSet

\* in (\d+) days? matches at i with n digits
DaysMatchAt(s, i, n) ==
    /\ OccursAt(s, "in ", i)
    /\ n >= 1
    /\ i + 2 + n <= Len(s)
    /\ AllDigits(s, i + 3, i + 2 + n)
    /\ OccursAt(s, " day", i + 3 + n)

\* the positions where the pattern matches
DaysStarts(s) ==
    {p \in 1..Len(s) : OccursAt(s, "in ", p) /\ \E n \in 1..Len(s) : DaysMatchAt(s, p, n)}

\* match.groups() of the leftmost match: the one captured group
DaysGroups(s) ==
    LET p == First(DaysStarts(s))
        n == CHOOSE m \in 1..Len(s) : DaysMatchAt(s, p, m)
    IN  << SubSeq(s, p + 3, p + 2 + n) >>

NoNewline(s, from, to) == \A k \in from..to : CharAt(s, k) # "\n"

\* (a1|a2|..).*?(b1|b2|..)
GapSearch(s, first, second) ==
    \E a \in first : \E p \in 1..Len(s) :
        /\ OccursAt(s, a, p)
        /\ \E b \in second : \E q \in (p + Len(a))..Len(s) :
              OccursAt(s, b, q) /\ NoNewline(s, p + Len(a), q - 1)

\* re.search(pattern, sentence_lower) finds a match
PatternSearch(p, s) ==
    CASE p.kind = "alts" -> \E a \in p.first : Contains(s, a)
      [] p.kind = "gap"  -> GapSearch(s, p.first, p.second)
      [] p.kind = "days" -> DaysStarts(s) # {}

\* lambda m: f'In {m[1]} days' applied to the tuple m of captured groups;
\* Python's m[1] is the second element of the tuple
deadline_lambda(m) ==
    IF Len(m) >= 2 THEN Deadline("In " \o m[2] \o " days") ELSE DeadlineRaise(IndexError)

extract_deadline(sentence) ==
    LET sentence_lower == Lower(sentence)
        \* entries whose label is None are skipped before the search
        Live(p) == p.label # None /\ PatternSearch(p, sentence_lower)
        DayHit(d) == WordSearch(sentence_lower, d[1])
        Urgent(w) == Contains(sentence_lower, w)
        patternHits == Hits(deadline_patterns, Live)
        dayHits == Hits(days, DayHit)
    IN  IF patternHits # {}
        THEN LET p == deadline_patterns[First(patternHits)]
             IN  IF p.label = "callable"
                 THEN deadline_lambda(DaysGroups(sentence_lower))
                 ELSE Deadline(p.label)
        ELSE IF dayHits # {}
        THEN Deadline(days[First(dayHits)][2])
        ELSE IF Hits(urgency_words, Urgent) # {}
        THEN Deadline("ASAP")
        ELSE IF Contains(sentence_lower, "next sprint") \/ Contains(sentence_lower, "next iteration")
        THEN Deadline("Next sprint")
        ELSE Deadline(None)

(***************************************************************************)
(* Priority classifier.                                                    *)
(***************************************************************************)
UpperMap ==
    [ a |-> "A", b |-> "B", c |-> "C", d |-> "D", e |-> "E", f |-> "F", g |-> "G", h |-> "H", i |-> "I",
      j |-> "J", k |-> "K", l |-> "L", m |-> "M", n |-> "N", o |-> "O", p |-> "P", q |-> "Q", r |-> "R",
      s |-> "S", t |-> "T", u |-> "U", v |-> "V", w |-> "W", x |-> "X", y |-> "Y", z |-> "Z" ]

UpperChar(c) == IF c \in LowerSet THEN UpperMap[c] ELSE c

\* str.capitalize()
Capitalize(s) ==
    IF s = "" THEN "" ELSE UpperChar(CharAt(s, 1)) \o Lower(SubSeq(s, 2, Len(s)))

determine_priority(sentence) ==
    LET sentence_lower == Lower(sentence)
        TierHit(t) == \E k \in 1..Len(t.keywords) : Contains(sentence_lower, t.keywords[k])
        tierHits == Hits(priority_keywords, TierHit)
    IN  IF tierHits # {}
        THEN Capitalize(priority_keywords[First(tierHits)].priority)
        ELSE "Medium"

(***************************************************************************)
(* Dependency linker.  The field dependencies is None or a list of ids;    *)
(* the code never stores an empty list, and the empty sequence stands for  *)
(* None.                                                                   *)
(***************************************************************************)
NoDependencies == << >>

HasDependencyKeyword(context) ==
    LET context_lower == Lower(context)
    IN  \E k \in 1..Len(dependency_keywords) : Contains(context_lower, dependency_keywords[k])

\* the guard i > 0 dropped: tasks[i - 1] of the first task is tasks[-1]
identify_dependencies_unguarded(ts) ==
    [k \in 1..Len(ts) |->
        IF HasDependencyKeyword(ts[k].context)
        THEN [ts[k] EXCEPT !.dependencies = << ts[IF k = 1 THEN Len(ts) ELSE k - 1].task_id >>]
        ELSE ts[k]]

\* i is the 0-based index of enumerate(tasks)
identify_dependencies(ts) ==
    [k \in 1..Len(ts) |->
        LET i == k - 1
        IN  IF HasDependencyKeyword(ts[k].context) /\ i > 0
            THEN [ts[k] EXCEPT !.dependencies = << ts[k - 1].task_id >>]
            ELSE ts[k]]

\* _generate_summary
generate_summary(text, task_count) ==
    "Meeting discussion with " \o ToString(task_count) \o " tasks identified from "
    \o ToString(Len(split_into_sentences(text))) \o " discussion points"

(***************************************************************************)
(* Inputs: transcripts built from a pool of sentences, rosters built from  *)
(* a pool of entries.                                                      *)
(***************************************************************************)
MaxSentences == 2
MaxRoster == 2

Member(n, r, s) == [k \in {"name", "role", "skills"} |->
                        CASE k = "name" -> n [] k = "role" -> r [] k = "skills" -> s]

\* the member without one of its keys
Without(member, key) == [k \in (DOMAIN member) \ {key} |-> member[k]]

Sakshi == Member("Sakshi", "Frontend Developer", "React, JavaScript, UI bugs")
Mohit == Member("Mohit", "Backend Engineer", "Database, APIs, Performance optimization")
Arjun == Member("Arjun", "UI/UX Designer", "Figma, User flows, Mobile design")
Lata == Member("Lata", "QA Engineer", "Testing, Automation, Quality assurance")

WellFormedMembers == {Sakshi, Mohit, Lata}
MalformedMembers == {Without(Arjun, "name"), Without(Arjun, "role"), Without(Arjun, "skills")}
MemberPool == WellFormedMembers \cup MalformedMembers

IsInjective(f) == \A a, b \in DOMAIN f : a # b => f[a] # f[b]

SeqsUpTo(S, n) == UNION {[1..m -> S] : m \in 0..n}

\* rosters of well-formed entries, and rosters with a malformed entry
Rosters == {r \in SeqsUpTo(WellFormedMembers, MaxRoster) : IsInjective(r)}

MalformedRosters ==
    {r \in SeqsUpTo(MemberPool, MaxRoster) :
        IsInjective(r) /\ \E k \in 1..Len(r) : r[k] \in MalformedMembers}

SentencePool ==
    { "Lata should fix the api",
      "Deliver by Friday",
      "Please fix it in 3 days",
      "Update the page after that",
      "Write the report",
      "Mohit and Lata must test it" }

Terminators == << ". ", "?! ", "... " >>

RECURSIVE MakeTranscriptFrom(_, _)
MakeTranscriptFrom(ss, k) ==
    IF k > Len(ss) THEN ""
    ELSE ss[k] \o Terminators[((k - 1) % Len(Terminators)) + 1] \o MakeTranscriptFrom(ss, k + 1)

MakeTranscript(ss) == MakeTranscriptFrom(ss, 1)

LoginBugTranscript ==
    "Sakshi, we need someone to fix the critical login bug. This needs to be done by tomorrow evening."
DatabaseTranscript ==
    "The database performance is really slow, Mohit you're good with backend optimization."

Transcripts ==
    {MakeTranscript(ss) : ss \in SeqsUpTo(SentencePool, MaxSentences)}
    \cup {LoginBugTranscript, DatabaseTranscript}

(***************************************************************************)
(* One run of extract_tasks_from_transcript.                               *)
(***************************************************************************)
\* transcript .. error are the locals of the run that is executing;
\* team_members is the roster object the caller hands to every run; others
\* holds the locals of the runs that are not executing at the moment
VARIABLES transcript, team_members, pc, sentences, potential_tasks,
          tasks, i, task_id, result, error, others

vars == <<transcript, team_members, pc, sentences, potential_tasks,
          tasks, i, task_id, result, error, others>>

NoResult == [meeting_summary |-> None, tasks |-> << >>, unassigned_tasks |-> << >>]

InitWith(rosters) ==
    /\ transcript \in Transcripts
    /\ team_members \in rosters
    /\ pc = "split"
    /\ sentences = << >>
    /\ potential_tasks = << >>
    /\ tasks = << >>
    /\ i = 0
    /\ task_id = 1
    /\ result = NoResult
    /\ error = None
    /\ others = << >>

Init == InitWith(Rosters)

\* the runs whose roster has an entry missing name, role or skills
InitMalformed == InitWith(MalformedRosters)

\* sentences = self._split_into_sentences(transcript)
SplitIntoSentences ==
    /\ pc = "split"
    /\ sentences' = split_into_sentences(transcript)
    /\ pc' = "identify"
    /\ UNCHANGED <<transcript, team_members, potential_tasks, tasks, i, task_id, result, error, others>>

\* potential_tasks = self._identify_tasks(sentences); tasks = []; task_id = 1
IdentifyTasks ==
    /\ pc = "identify"
    /\ potential_tasks' = identify_tasks(sentences)
    /\ tasks' = << >>
    /\ task_id' = 1
    /\ i' = 0
    /\ pc' = "loop"
    /\ UNCHANGED <<transcript, team_members, sentences, result, error, others>>

\* skill scoring consulted before the explicit mention
resolve_assignee_skills_first(task_info, description) ==
    LET scored == assign_based_on_skills(description, team_members)
    IN  IF scored.exc # None \/ scored.found THEN scored
        ELSE find_explicit_assignment(task_info.sentence, team_members)

\* the resolution of the assignee of one candidate: explicit mention, else skills
resolve_assignee(task_info, description) ==
    LET explicit == find_explicit_assignment(task_info.sentence, team_members)
    IN  IF explicit.exc # None \/ explicit.found THEN explicit
        ELSE assign_based_on_skills(description, team_members)

\* the deadline of one candidate: its own sentence, else the previous
\* sentence (only when i > 0), else the following sentence
resolve_deadline(task_info, idx) ==
    LET own == extract_deadline(task_info.sentence)
        prev == IF idx > 0
                THEN extract_deadline(sentences[Max(0, task_info.sentence_index - 1) + 1])
                ELSE Deadline(None)
        next == extract_deadline(sentences[task_info.sentence_index + 1 + 1])
    IN  IF own.exc # None \/ own.value # None THEN own
        ELSE IF prev.exc # None THEN prev
        ELSE IF prev.value = None /\ task_info.sentence_index < Len(sentences) - 1 THEN next
        ELSE prev

\* the iteration lower-cases the names of the roster entries in place
ProcessTask_normalising_roster ==
    /\ pc = "loop"
    /\ i < Len(potential_tasks)
    /\ LET task_info == potential_tasks[i + 1]
           description == extract_task_description(task_info.sentence)
           assigned_to == resolve_assignee(task_info, description)
           deadline == resolve_deadline(task_info, i)
           task == [task_id |-> task_id,
                    title |-> generate_title(description),
                    description |-> description,
                    assigned_to |-> IF assigned_to.found THEN assigned_to.name ELSE None,
                    deadline |-> deadline.value,
                    priority |-> determine_priority(task_info.sentence),
                    dependencies |-> NoDependencies,
                    reasoning |-> IF assigned_to.found THEN assigned_to.reasoning
                                  ELSE "No suitable team member found",
                    context |-> task_info.sentence]
       IN  IF assigned_to.exc # None \/ deadline.exc # None
           THEN /\ pc' = "raised"
                /\ error' = (IF assigned_to.exc # None THEN assigned_to.exc ELSE deadline.exc)
                /\ UNCHANGED <<tasks, i, task_id>>
           ELSE /\ tasks' = Append(tasks, task)
                /\ task_id' = task_id + 1
                /\ i' = i + 1
                /\ UNCHANGED <<pc, error>>
    /\ team_members' = [k \in 1..Len(team_members) |->
                            IF HasKey(team_members[k], "name")
                            THEN [team_members[k] EXCEPT !["name"] = Lower(@)]
                            ELSE team_members[k]]
    /\ UNCHANGED <<transcript, sentences, potential_tasks, result, others>>

\* one iteration of the for loop over potential_tasks
ProcessTask ==
    /\ pc = "loop"
    /\ i < Len(potential_tasks)
    /\ LET task_info == potential_tasks[i + 1]
           description == extract_task_description(task_info.sentence)
           assigned_to == resolve_assignee(task_info, description)
           deadline == resolve_deadline(task_info, i)
           priority == determine_priority(task_info.sentence)
           task == [task_id |-> task_id,
                    title |-> generate_title(description),
                    description |-> description,
                    assigned_to |-> IF assigned_to.found THEN assigned_to.name ELSE None,
                    deadline |-> deadline.value,
                    priority |-> priority,
                    dependencies |-> NoDependencies,
                    reasoning |-> IF assigned_to.found THEN assigned_to.reasoning
                                  ELSE "No suitable team member found",
                    context |-> task_info.sentence]
       IN  \/ /\ assigned_to.exc # None
              /\ pc' = "raised"
              /\ error' = assigned_to.exc
              /\ UNCHANGED <<tasks, i, task_id>>
           \/ /\ assigned_to.exc = None
              /\ deadline.exc # None
              /\ pc' = "raised"
              /\ error' = deadline.exc
              /\ UNCHANGED <<tasks, i, task_id>>
           \/ /\ assigned_to.exc = None
              /\ deadline.exc = None
              /\ tasks' = Append(tasks, task)
              /\ task_id' = task_id + 1
              /\ i' = i + 1
              /\ UNCHANGED <<pc, error>>
    /\ UNCHANGED <<transcript, team_members, sentences, potential_tasks, result, others>>

\* tasks = self._identify_dependencies(tasks)
IdentifyDependencies ==
    /\ pc = "loop"
    /\ i = Len(potential_tasks)
    /\ tasks' = identify_dependencies(tasks)
    /\ pc' = "assemble"
    /\ UNCHANGED <<transcript, team_members, sentences, potential_tasks, i, task_id, result, error, others>>

\* Python truth of the field assigned_to: neither None nor the empty string
Truthy(v) == v # None /\ v # ""

unassigned_of(ts) ==
    LET without == SelectSeq(ts, LAMBDA t : ~Truthy(t.assigned_to))
    IN  [k \in 1..Len(without) |->
            [description |-> without[k].description,
             reason |-> "No team member with matching skills found"]]

\* no task is removed from the main list
assigned_of_keep_all(ts) == ts

\* the kept tasks are renumbered
assigned_of_renumbered(ts) ==
    LET kept == SelectSeq(ts, LAMBDA t : Truthy(t.assigned_to))
    IN  [k \in 1..Len(kept) |-> [kept[k] EXCEPT !.task_id = k]]

assigned_of(ts) == SelectSeq(ts, LAMBDA t : Truthy(t.assigned_to))

\* the partition of the tasks and the returned dict
Assemble ==
    /\ pc = "assemble"
    /\ result' = [meeting_summary |-> generate_summary(transcript, Len(tasks)),
                  tasks |-> assigned_of(tasks),
                  unassigned_tasks |-> unassigned_of(tasks)]
    /\ pc' = "returned"
    /\ UNCHANGED <<transcript, team_members, sentences, potential_tasks, tasks, i, task_id, error, others>>

Next ==
    \/ SplitIntoSentences
    \/ IdentifyTasks
    \/ ProcessTask
    \/ IdentifyDependencies
    \/ Assemble

Spec == Init /\ [][Next]_vars

SpecMalformed == InitMalformed /\ [][Next]_vars

(***************************************************************************)
(* Several runs on one roster object.  Exactly one run executes at a time; *)
(* any other run may be resumed between two steps, so the runs interleave  *)
(* in every order, the sequential orders included.                         *)
(***************************************************************************)
MaxRuns == 2

RunTranscripts ==
    { "Sakshi should fix the page.",
      "Write the test. Update it after that." }

RunRosters == { <<Sakshi, Lata>>, <<Lata, Sakshi>> }

\* the locals of a run
Locals(t, p, ss, pts, ts, idx, id, res, err) ==
    [transcript |-> t, pc |-> p, sentences |-> ss, potential_tasks |-> pts,
     tasks |-> ts, i |-> idx, task_id |-> id, result |-> res, error |-> err]

\* a run at its call
FreshRun(t) == Locals(t, "split", << >>, << >>, << >>, 0, 1, NoResult, None)

Executing ==
    Locals(transcript, pc, sentences, potential_tasks, tasks, i, task_id, result, error)

InitRuns ==
    /\ transcript \in RunTranscripts
    /\ team_members \in RunRosters
    /\ pc = "split"
    /\ sentences = << >>
    /\ potential_tasks = << >>
    /\ tasks = << >>
    /\ i = 0
    /\ task_id = 1
    /\ result = NoResult
    /\ error = None
    /\ others \in [1..(MaxRuns - 1) -> {FreshRun(t) : t \in RunTranscripts}]

\* another run is resumed; the roster object is the same for all runs
Switch ==
    \E k \in 1..Len(others) :
        /\ transcript' = others[k].transcript
        /\ pc' = others[k].pc
        /\ sentences' = others[k].sentences
        /\ potential_tasks' = others[k].potential_tasks
        /\ tasks' = others[k].tasks
        /\ i' = others[k].i
        /\ task_id' = others[k].task_id
        /\ result' = others[k].result
        /\ error' = others[k].error
        /\ others' = [others EXCEPT ![k] = Executing]
        /\ UNCHANGED team_members

NextRuns ==
    \/ SplitIntoSentences
    \/ IdentifyTasks
    \/ ProcessTask
    \/ IdentifyDependencies
    \/ Assemble
    \/ Switch

SpecRuns == InitRuns /\ [][NextRuns]_vars

(***************************************************************************)
(* Runs on one-sentence transcripts that exercise the deadline resolver,   *)
(* the scoring and the priority classifier, with rosters over the four     *)
(* members of the example.                                                 *)
(***************************************************************************)
PhrasePool ==
    { "Deploy it by tomorrow evening",
      "Please fix it Monday or by tomorrow evening asap",
      "Test it Monday asap",
      "Update it asap next sprint",
      "Review it next sprint",
      "Please fix it in 3 days",
      "Prepare slides for the Monday demo",
      "Write notes for the team",
      "Test the page",
      "Update the react page",
      "Write the report",
      "Design the api test",
      "The qa engineer must test it",
      "Fix it eventually, it is blocking",
      "Review it whenever, it is important",
      "A normal and low fix",
      "Update the regular docs",
      "Fix the slow page" }

PhraseTranscripts == {p \o "." : p \in PhrasePool}

PhraseRosters ==
    {r \in SeqsUpTo({Sakshi, Mohit, Arjun, Lata}, MaxRoster) : IsInjective(r)}

InitPhrases ==
    /\ transcript \in PhraseTranscripts
    /\ team_members \in PhraseRosters
    /\ pc = "split"
    /\ sentences = << >>
    /\ potential_tasks = << >>
    /\ tasks = << >>
    /\ i = 0
    /\ task_id = 1
    /\ result = NoResult
    /\ error = None
    /\ others = << >>

SpecPhrases == InitPhrases /\ [][Next]_vars

TypeOK ==
    /\ pc \in {"split", "identify", "loop", "assemble", "returned", "raised"}
    /\ i = Len(tasks)
    /\ task_id = i + 1
    /\ (error # None) = (pc = "raised")

(***************************************************************************)
(* Properties.                                                             *)
(***************************************************************************)
Returned == pc = "returned"

WellFormed(member) == HasKey(member, "name") /\ HasKey(member, "role") /\ HasKey(member, "skills")

InRoster(member) == \E k \in 1..Len(team_members) : team_members[k] = member

\* the name of the member occurs in the sentence as a whole word
NameOccurs(sentence, member) ==
    HasKey(member, "name") /\ WordSearch(Lower(sentence), Lower(member["name"]))

\* an assignee is resolved for the k-th candidate
Resolved(k) ==
    resolve_assignee(potential_tasks[k], extract_task_description(potential_tasks[k].sentence)).found

IdsOf(ts) == {ts[k].task_id : k \in 1..Len(ts)}

\* C1: in a returned Result every candidate is in exactly one of the two
\* lists: the lengths of tasks and unassigned_tasks add up to the number of
\* candidates, a candidate is in tasks iff an assignee was resolved for it,
\* and no task in tasks has an absent or empty assigned_to.
C1_Partition ==
    Returned =>
        /\ Len(result.tasks) + Len(result.unassigned_tasks) = Len(potential_tasks)
        /\ \A k \in 1..Len(potential_tasks) : Resolved(k) <=> k \in IdsOf(result.tasks)
        /\ Len(result.unassigned_tasks)
               = Cardinality({k \in 1..Len(potential_tasks) : ~Resolved(k)})
        /\ \A j \in 1..Len(result.tasks) : result.tasks[j].assigned_to \notin {None, ""}

C1_Witness ==
    Returned /\ Len(result.tasks) >= 1 /\ Len(result.unassigned_tasks) >= 1

\* C2: every task of a returned Result carries as task_id the 1-based
\* position of its sentence among all candidates, unassigned ones counted;
\* the ids are strictly increasing and are not renumbered.
C2_IdsAreDetectionOrder ==
    Returned =>
        /\ \A j \in 1..Len(result.tasks) :
               LET t == result.tasks[j]
               IN  /\ t.task_id \in 1..Len(potential_tasks)
                   /\ potential_tasks[t.task_id].sentence = t.context
        /\ \A j1, j2 \in 1..Len(result.tasks) :
               j1 < j2 => result.tasks[j1].task_id < result.tasks[j2].task_id
        /\ IdsOf(result.tasks) = {k \in 1..Len(potential_tasks) : Resolved(k)}

C2_Witness ==
    Returned /\ \E j \in 1..Len(result.tasks) : result.tasks[j].task_id # j

ExplicitReasoning == "Explicitly mentioned in discussion"

\* C3 as stated: whenever the name of a roster member occurs in the sentence
\* of a task as a whole word, that member is the assignee, with the
\* explicit-mention reasoning.
C3_AnyMentionedMemberWins ==
    \A k \in 1..Len(tasks) : \A j \in 1..Len(team_members) :
        NameOccurs(tasks[k].context, team_members[j]) =>
            /\ tasks[k].assigned_to = team_members[j]["name"]
            /\ tasks[k].reasoning = ExplicitReasoning

Mentioned(sentence) == {j \in 1..Len(team_members) : NameOccurs(sentence, team_members[j])}

\* C3 amended: when names of roster members occur in the sentence of a task
\* as whole words, the assignee is the first such member in roster order,
\* with the explicit-mention reasoning, whatever skill scoring would select;
\* the outcome of skill scoring is used only when no roster name occurs.
C3_FirstMentionedWins ==
    \A k \in 1..Len(tasks) :
        LET mentioned == Mentioned(tasks[k].context)
            first == First(mentioned)
            scored == assign_based_on_skills(tasks[k].description, team_members)
        IN  IF mentioned # {}
            THEN /\ tasks[k].assigned_to = team_members[first]["name"]
                 /\ tasks[k].reasoning = ExplicitReasoning
            ELSE /\ tasks[k].assigned_to = (IF scored.found THEN scored.name ELSE None)
                 /\ tasks[k].reasoning # ExplicitReasoning

\* a task whose sentence names a member while skill scoring selects another
C3_Witness ==
    \E k \in 1..Len(tasks) :
        LET scored == assign_based_on_skills(tasks[k].description, team_members)
        IN  /\ Mentioned(tasks[k].context) # {}
            /\ scored.found
            /\ scored.name # tasks[k].assigned_to
            /\ tasks[k].reasoning = ExplicitReasoning

\* the 0-based index in sentences of the sentence of the k-th task
SentenceIndex(k) == potential_tasks[k].sentence_index

\* the deadline the neighbour rule gives a task whose sentence resolves none
NeighbourDeadline(idx) ==
    LET prev == IF idx > 0 THEN extract_deadline(sentences[idx]).value ELSE None
        next == IF idx < Len(sentences) - 1 THEN extract_deadline(sentences[idx + 2]).value ELSE None
    IN  IF prev # None THEN prev ELSE next

\* C4: a task whose own sentence resolves no deadline has the deadline of
\* the immediately preceding sentence when that sentence exists and resolves
\* one, else that of the immediately following sentence when it exists and
\* resolves one, else none; also for the first detected candidate.
C4_NeighbourDeadline ==
    \A k \in 1..Len(tasks) :
        extract_deadline(tasks[k].context) = Deadline(None) =>
            tasks[k].deadline = NeighbourDeadline(SentenceIndex(k))

\* C5: with a roster whose entries all carry name, role and skills, no
\* transcript makes the run raise an error.
C5_NeverRaises ==
    (\A k \in 1..Len(team_members) : WellFormed(team_members[k])) => pc # "raised"

\* the sentence matches in (\d+) days? and no earlier entry of the table
DaysOnly(sentence) ==
    LET lower == Lower(sentence)
        Live(p) == p.label # None /\ PatternSearch(p, lower)
        hits == Hits(deadline_patterns, Live)
    IN  hits # {} /\ deadline_patterns[First(hits)].kind = "days"

\* C6: a sentence that contains "in N days" and matches no earlier entry of
\* the pattern list resolves to the label "In N days", and a task on that
\* sentence carries that deadline.
C6_InNDays ==
    /\ \A k \in 1..Len(sentences) :
           DaysOnly(sentences[k]) =>
               extract_deadline(sentences[k])
                   = Deadline("In " \o DaysGroups(Lower(sentences[k]))[1] \o " days")
    /\ \A k \in 1..Len(tasks) :
           DaysOnly(tasks[k].context) =>
               tasks[k].deadline = "In " \o DaysGroups(Lower(tasks[k].context))[1] \o " days"

\* C7: a roster with an entry missing name, role or skills never yields a
\* Result.
C7_MalformedRosterFails ==
    (\E k \in 1..Len(team_members) : ~WellFormed(team_members[k])) => ~Returned

\* C8: for the login-bug transcript and a roster containing Sakshi, the
\* Result has exactly one task, assigned to Sakshi with priority Critical
\* and deadline Tomorrow, and no unassigned task.
C8_LoginBugScenario ==
    (Returned /\ transcript = LoginBugTranscript /\ InRoster(Sakshi)) =>
        /\ Len(result.tasks) = 1
        /\ Len(result.unassigned_tasks) = 0
        /\ result.tasks[1].assigned_to = "Sakshi"
        /\ result.tasks[1].priority = "Critical"
        /\ result.tasks[1].deadline = "Tomorrow"

\* C9: for the database transcript and a roster containing Mohit, the Result
\* has a task for that sentence assigned to Mohit by explicit mention.
C9_DatabaseScenario ==
    (Returned /\ transcript = DatabaseTranscript /\ InRoster(Mohit)) =>
        \E j \in 1..Len(result.tasks) :
            /\ result.tasks[j].assigned_to = "Mohit"
            /\ result.tasks[j].reasoning = ExplicitReasoning

DependencyWords == {"depends on", "after", "once", "when", "first"}

MentionsDependency(context) == \E w \in DependencyWords : Contains(Lower(context), w)

Linked == pc \in {"assemble", "returned"}

\* C10: after dependency linking, a task whose context contains a dependency
\* keyword has dependencies equal to the one-element list with the id of the
\* immediately preceding detected task iff such a task exists; the first
\* detected task and any task without a keyword have none.
C10_Dependencies ==
    Linked =>
        \A k \in 1..Len(tasks) :
            /\ (MentionsDependency(tasks[k].context) /\ k > 1)
                   => tasks[k].dependencies = << tasks[k - 1].task_id >>
            /\ (~MentionsDependency(tasks[k].context) \/ k = 1)
                   => tasks[k].dependencies = NoDependencies

C10_Witness ==
    /\ Returned
    /\ Len(tasks) >= 2
    /\ MentionsDependency(tasks[1].context)
    /\ tasks[1].dependencies = NoDependencies
    /\ tasks[2].dependencies = << 1 >>

AllRuns == {Executing} \cup {others[k] : k \in 1..Len(others)}

\* the runs that ended agree on what they return or raise whenever they
\* were given the same transcript (the roster object is common to all runs)
SameInputSameResult ==
    \A a, b \in AllRuns :
        (a.transcript = b.transcript /\ a.pc \in {"returned", "raised"}
                                     /\ b.pc \in {"returned", "raised"})
            => (a.pc = b.pc /\ a.result = b.result /\ a.error = b.error)

\* C11: no step of a run changes the roster it was given, and runs on the
\* identical transcript and roster return identical Results, whatever other
\* runs ended before them or are interleaved with them.
C11_ResultDependsOnInputOnly ==
    [][team_members' = team_members /\ SameInputSameResult']_vars

\* two runs on one transcript have both returned a task, one of them suspended
C11_Witness ==
    /\ Returned
    /\ Len(result.tasks) >= 1
    /\ \E k \in 1..Len(others) :
           others[k].pc = "returned" /\ others[k].transcript = transcript

\* C12: a run on the empty transcript returns no task and no unassigned
\* task; a run on the empty roster does not fail and returns no task and
\* every candidate, in order, among the unassigned tasks with the reason
\* "No team member with matching skills found".
C12_EmptyInputs ==
    /\ (transcript = "" /\ Returned) =>
           (result.tasks = << >> /\ result.unassigned_tasks = << >>)
    /\ (team_members = << >>) =>
           /\ pc # "raised"
           /\ Returned =>
                  /\ result.tasks = << >>
                  /\ Len(result.unassigned_tasks) = Len(potential_tasks)
                  /\ \A k \in 1..Len(potential_tasks) :
                         result.unassigned_tasks[k] =
                             [description |-> extract_task_description(potential_tasks[k].sentence),
                              reason |-> "No team member with matching skills found"]

\* the entries of the pattern list that match the sentence
MatchingEntries(sentence) ==
    {k \in 1..Len(deadline_patterns) : PatternSearch(deadline_patterns[k], Lower(sentence))}

\* the label of an entry for a sentence it matches: the fixed text, the text
\* built from the captured number, no deadline for the skip entry
LabelOf(k, sentence) ==
    IF deadline_patterns[k].label = "callable"
    THEN "In " \o DaysGroups(Lower(sentence))[1] \o " days"
    ELSE deadline_patterns[k].label

\* the deadline by the stated precedence: pattern list, bare day names,
\* urgency words, sprint phrases
DeadlineByPrecedence(sentence) ==
    LET l == Lower(sentence)
        dayHits == {k \in 1..Len(days) : WordSearch(l, days[k][1])}
    IN  IF MatchingEntries(sentence) # {}
        THEN LabelOf(First(MatchingEntries(sentence)), sentence)
        ELSE IF dayHits # {} THEN days[First(dayHits)][2]
        ELSE IF \E k \in 1..Len(urgency_words) : Contains(l, urgency_words[k]) THEN "ASAP"
        ELSE IF Contains(l, "next sprint") \/ Contains(l, "next iteration") THEN "Next sprint"
        ELSE None

\* C13: for every sentence the resolver returns the label of the first
\* entry of the pattern list that matches, else the bare day name, else
\* ASAP for an urgency word, else Next sprint for a sprint phrase; a sentence
\* containing "by tomorrow evening" resolves to "Tomorrow".
C13_PatternOrder ==
    \A k \in 1..Len(sentences) :
        /\ extract_deadline(sentences[k]) = Deadline(DeadlineByPrecedence(sentences[k]))
        /\ Contains(Lower(sentences[k]), "by tomorrow evening") =>
               extract_deadline(sentences[k]) = Deadline("Tomorrow")

\* the skip entry is the first entry of the pattern list that matches
SkipMatches(sentence) ==
    /\ MatchingEntries(sentence) # {}
    /\ deadline_patterns[First(MatchingEntries(sentence))].label = None

\* C14: a sentence that matches the skip entry and no earlier entry of the
\* pattern list gets no deadline from that resolver call, whatever day
\* names, urgency words or sprint phrases it contains.
C14_SkipSuppressesFallbacks ==
    \A k \in 1..Len(sentences) :
        SkipMatches(sentences[k]) => extract_deadline(sentences[k]) = Deadline(None)

\* the number of entries of a sequence of tokens that occur in the text
Found(tokens, text) == Cardinality({k \in 1..Len(tokens) : Contains(text, tokens[k])})

\* twice the score of the j-th roster member for a description: 2 per skill
\* token, 1 per role token, 1.5 per keyword of every role category whose
\* name occurs in the role
TwiceScore(j, description) ==
    LET d == Lower(description)
        role == Lower(team_members[j]["role"])
        skills == SplitOn(Lower(team_members[j]["skills"]), {","})
        tokens == [k \in 1..Len(skills) |-> Strip(skills[k])]
        categories == {c \in 1..Len(role_task_mapping) :
                          Contains(role, role_task_mapping[c].role_type)}
        perCategory == [c \in 1..Len(role_task_mapping) |->
                           IF c \in categories
                           THEN Found(role_task_mapping[c].keywords, d) ELSE 0]
    IN  4 * Found(tokens, d) + 2 * Found(Words(role), d) + 3 * SumSeq(perCategory, 1)

\* the roster members with the highest score for the description
Winners(description) ==
    {j \in 1..Len(team_members) :
        \A h \in 1..Len(team_members) :
            TwiceScore(h, description) <= TwiceScore(j, description)}

MatchedTokens(j, description) ==
    LET skills == SplitOn(Lower(team_members[j]["skills"]), {","})
        tokens == [k \in 1..Len(skills) |-> Strip(skills[k])]
    IN  SelectSeq(tokens, LAMBDA t : t # "" /\ Contains(Lower(description), t))

\* C16: the reasoning of a task assigned by scoring lists the matched skill
\* tokens of the member it is assigned to, and names that member's own role
\* when the member matched no skill token, wherever the member stands in
\* the roster.
C16_ReasoningNamesWinner ==
    \A k \in 1..Len(tasks) :
        (Mentioned(tasks[k].context) = {} /\ tasks[k].assigned_to # None) =>
            LET winner == First(Winners(tasks[k].description))
                matched == MatchedTokens(winner, tasks[k].description)
            IN  tasks[k].reasoning =
                    "Best match based on skills: "
                    \o (IF matched # << >> THEN Join(matched, ", ")
                        ELSE team_members[winner]["role"])

TierOrder == <<"critical", "high", "low", "medium">>

TierName == [critical |-> "Critical", high |-> "High", low |-> "Low", medium |-> "Medium"]

\* the keywords of a tier
KeywordsOf(tier) ==
    LET e == CHOOSE k \in 1..Len(priority_keywords) : priority_keywords[k].priority = tier
    IN  {priority_keywords[e].keywords[j] : j \in 1..Len(priority_keywords[e].keywords)}

\* the positions in TierOrder of the tiers with a keyword in the sentence
TiersIn(sentence) ==
    {t \in 1..Len(TierOrder) : \E kw \in KeywordsOf(TierOrder[t]) : Contains(Lower(sentence), kw)}

\* C17: the priority of a task is the capitalized name of the first tier, in
\* the order critical, high, low, medium, that has a keyword occurring in the
\* lower-cased sentence of the task, wherever the keywords stand, and Medium
\* when no keyword occurs; it is one of Critical, High, Medium, Low.
C17_PriorityByTierOrder ==
    \A k \in 1..Len(tasks) :
        /\ tasks[k].priority \in {"Critical", "High", "Medium", "Low"}
        /\ tasks[k].priority =
               (IF TiersIn(tasks[k].context) = {} THEN "Medium"
                ELSE TierName[TierOrder[First(TiersIn(tasks[k].context))]])

\* the positions where a keyword of the tier occurs in the sentence
PositionsOf(tier, sentence) ==
    {p \in 1..Len(sentence) : \E kw \in KeywordsOf(tier) : OccursAt(Lower(sentence), kw, p)}

\* a task whose sentence has keywords of two tiers, the one of the tier that
\* decides standing after the one of the other tier
C17_Witness ==
    /\ Returned
    /\ \E k \in 1..Len(tasks) : \E t, u \in TiersIn(tasks[k].context) :
           /\ t = First(TiersIn(tasks[k].context))
           /\ u # t
           /\ \A p \in PositionsOf(TierOrder[t], tasks[k].context) :
                  \E q \in PositionsOf(TierOrder[u], tasks[k].context) : q < p
           /\ tasks[k].priority = TierName[TierOrder[t]]

\* C18: in every returned Result each id in the dependencies of a task of
\* result.tasks is smaller than the id of that task and is the task_id of
\* another task of result.tasks.
C18_DependenciesStayInResult ==
    Returned =>
        \A k \in 1..Len(result.tasks) :
            \A d \in 1..Len(result.tasks[k].dependencies) :
                LET dep == result.tasks[k].dependencies[d]
                IN  /\ dep < result.tasks[k].task_id
                    /\ \E j \in 1..Len(result.tasks) :
                           j # k /\ result.tasks[j].task_id = dep

====
